---- MODULE Spec2Model ----
(***************************************************************************)
(* A model of the tickler scheduler (src/tickler.go): the queue, the       *)
(* dependency registries, the semaphore, the wake channel, the dispatch    *)
(* loop and one worker goroutine per dispatched event.                     *)
(*                                                                         *)
(* Channels.  event.ch and event.resultCh are unbuffered: a send in        *)
(* removeJob completes only together with a receive in the select of the   *)
(* owning worker's wait loop, so a send and its receive are one step       *)
(* (SendCh, SendResultCh) whose guard is that the receiver stands in that  *)
(* select.  options.sema and loopSignal are buffered: only their lengths   *)
(* matter and are kept.                                                    *)
(*                                                                         *)
(* The mutex.  Enqueue, EnqueueWithContext and tryDequeue never block      *)
(* while they hold s.mu, so each is one step guarded by the mutex being    *)
(* free.  removeJob sends on unbuffered channels while it holds s.mu, so   *)
(* it is split: mu records the worker that holds the mutex.                *)
(*                                                                         *)
(* src/unnamed/part_000 is an earlier iteration of the same scheduler      *)
(* (no result channels, no contexts, a polling wait loop); its Enqueue,    *)
(* tryDequeue, removeJob and replenish agree with the ones modelled here   *)
(* on the waitFor path.                                                    *)
(***************************************************************************)
EXTENDS Integers, Sequences, FiniteSets, TLC

\* ---------------------------------------------------------------- bounds
\* Number of Enqueue / EnqueueWithContext calls in a behaviour.
MaxEvents == 3
\* The capacity make(chan _, defaultRequestLimit) gives options.sema and
\* loopSignal is 100 in the source; the model ranges it over 1..MaxLimit.
MaxLimit == 2
\* Number of Stop calls in a behaviour.
MaxStops == 2

\* ------------------------------------------------------------- constants
statusUndefined == 0
statusSuccess == 1
statusFailure == 2

NoOne == 0

\* ---------------------------------------------------------------- inputs
\* A call of Enqueue (api = "Enqueue") or EnqueueWithContext: the Request's
\* Job and the names given to WaitForJobs, IfSuccess and IfFailure.
\* ctxDone says whether the check of event.ctx.Done() in process finds the
\* caller's context cancelled (process reads the context nowhere else).
\* call numbers the call within its client program.
Req(call, api, job, waitFor, ifSuccess, ifFailure, ctxDone) ==
    [call |-> call, api |-> api, Job |-> job, waitFor |-> waitFor,
     ifSuccess |-> ifSuccess, ifFailure |-> ifFailure, ctxDone |-> ctxDone]

Plain(call, job) == Req(call, "Enqueue", job, {}, {}, {}, FALSE)

\* The workloads: each is a client program, the set of its Enqueue and
\* EnqueueWithContext calls and the number of its Stop calls.  The calls
\* are made from separate goroutines: in any order, each at most once, and
\* not necessarily all of them (at most MaxEvents submissions in a
\* behaviour).  Start is called once, at any moment.
Workload(calls, stops) == [calls |-> calls, stops |-> stops]

Workloads ==
    { \* a burst of independent jobs
      Workload({Plain(1, "X"), Plain(2, "Y"), Plain(3, "Z"), Plain(4, "W")}, 0),
      \* unconditional dependencies
      Workload({Plain(1, "A"), Plain(2, "B"),
                Req(3, "Enqueue", "J", {"A", "B"}, {}, {}, FALSE)}, 0),
      Workload({Plain(1, "A"), Req(2, "Enqueue", "J", {"A"}, {}, {}, FALSE),
                Req(3, "Enqueue", "K", {"J"}, {}, {}, FALSE)}, 0),
      \* a dependency on success, and a name submitted twice
      Workload({Plain(1, "A"), Req(2, "Enqueue", "J", {}, {"A"}, {}, FALSE),
                Plain(3, "A")}, 0),
      \* a dependency on failure, and a dependent of the dependent
      Workload({Plain(1, "A"), Req(2, "Enqueue", "J", {}, {}, {"A"}, FALSE),
                Req(3, "Enqueue", "K", {"J"}, {}, {}, FALSE)}, 0),
      \* submission with a context
      Workload({Req(1, "EnqueueWithContext", "A", {}, {}, {}, TRUE),
                Req(2, "Enqueue", "J", {"A"}, {"A"}, {}, FALSE),
                Req(3, "EnqueueWithContext", "K", {}, {"A"}, {}, FALSE),
                Req(4, "EnqueueWithContext", "B", {}, {}, {}, FALSE)}, 0),
      \* shutdown
      Workload({Plain(1, "X"), Plain(2, "Y")}, MaxStops)
    }

JobNames == {"A", "B", "J", "K", "X", "Y", "Z", "W"}

\* ----------------------------------------------------------------- state
VARIABLES
    limit,       \* cap(options.sema) = cap(loopSignal)
    menu,        \* the workload of this behaviour
    ev,          \* the Events created so far, by creation order
    queue,       \* Tickler.queue: ids of events
    sema,        \* len(options.sema)
    loopSignal,  \* len(loopSignal)
    mu,          \* the worker holding Tickler.mu in removeJob, or NoOne
    sendIdx,     \* how many sends the holder of mu has completed
    currentJobs, \* Tickler.currentJobs (its keys)
    jobsWaitFor, \* Tickler.jobsWaitFor: JobName -> sequence of event.ch
    resultCh,    \* Tickler.resultCh: JobName -> sequence of event.resultCh
    loopPc,      \* "off", "select", "tryDequeue", "exit"
    loopCtxDone, \* whether the Done() channel the loop's select holds is closed
    ctx,         \* Tickler.ctx: number of WithCancel derivations from Background
    ctxAtStart   \* whether s.ctx was done when Start spawned the loop

vars == <<limit, menu, ev, queue, sema, loopSignal, mu, sendIdx, currentJobs,
          jobsWaitFor, resultCh, loopPc, loopCtxDone, ctx, ctxAtStart>>

Ids == 1..Len(ev)

\* --------------------------------------------------------------- helpers
\* newEvent: the Event of a request.  result starts as statusSuccess.
\* pc is the position of the event's worker: "queued" (no worker yet),
\* "wait" (the for loop of process), "run" (inside event.f), "removeJob"
\* (deferred removeJob, before s.mu.Lock returns), "fanout" (removeJob,
\* holding s.mu), "replenish" (before <-sema), "tickleLoop" (replenish,
\* before tickleLoop), "done".  invoked records that event.f was called.
newEvent(r) ==
    [call |-> r.call, api |-> r.api,
     Job |-> r.Job, waitFor |-> r.waitFor, ifSuccess |-> r.ifSuccess,
     ifFailure |-> r.ifFailure, ctxDone |-> r.ctxDone,
     result |-> statusSuccess,
     pc |-> "queued", cnt |-> 0,
     SucceededEvents |-> 0, FailedEvents |-> 0, TotalEvents |-> 0,
     invoked |-> FALSE, afterStop |-> FALSE]

\* Bookkeeping for the properties: the event was created after a Stop.
Stamp(e) == [e EXCEPT !.afterStop = (ctx > 0)]

\* The client has made call r.
Called(r) == \E id \in Ids : ev[id].call = r.call

\* A tickleLoop that sends whatever len(loopSignal) is.
tickleLoopUnbounded(n) == n + 1

\* tickleLoop: a non-blocking send on loopSignal; dropped when it is full.
tickleLoop(n) == IF n < limit THEN n + 1 ELSE n

\* The names whose resultCh list Enqueue appends the event's resultCh to.
EnqueueResultNames(r) == r.ifSuccess

\* The names whose resultCh list EnqueueWithContext appends to: none.
EnqueueWithContextResultNames(r) == {}

\* Registration of event id under the names in ns of registry reg.
Register(reg, ns, id) ==
    [n \in JobNames |-> IF n \in ns THEN Append(reg[n], id) ELSE reg[n]]

\* A wait loop that breaks one signal early.
WaitOverOneEarly(e) == e.cnt < 2 /\ e.TotalEvents = 0

\* The condition on which the for loop of process breaks.
WaitOver(e) == e.cnt < 1 /\ e.TotalEvents = 0

\* The worker of event id stands in the select of its wait loop.
Receiving(id) == ev[id].pc = "wait" /\ ~WaitOver(ev[id])

\* A tryDequeue that dispatches whatever len(options.sema) is.
SemaHasSlotAlways == TRUE

\* The select in tryDequeue can send on options.sema.
SemaHasSlot == sema < limit

\* ------------------------------------------------------------------ Init
Init ==
    /\ limit \in 1..MaxLimit
    /\ menu \in Workloads
    /\ ev = <<>>
    /\ queue = <<>>
    /\ sema = 0
    /\ loopSignal = 0
    /\ mu = NoOne
    /\ sendIdx = 0
    /\ currentJobs = {}
    /\ jobsWaitFor = [n \in JobNames |-> <<>>]
    /\ resultCh = [n \in JobNames |-> <<>>]
    /\ loopPc = "off"
    /\ loopCtxDone = FALSE
    /\ ctx = 0
    /\ ctxAtStart = FALSE

\* --------------------------------------------------------------- clients
\* Enqueue, under s.mu: register, push back, and the deferred tickleLoop.
Enqueue(r) ==
    /\ r.api = "Enqueue"
    /\ ~Called(r)
    /\ Len(ev) < MaxEvents
    /\ mu = NoOne
    /\ LET id == Len(ev) + 1 IN
        /\ ev' = Append(ev, Stamp(newEvent(r)))
        /\ currentJobs' = currentJobs \cup {r.Job}
        /\ jobsWaitFor' = Register(jobsWaitFor, r.waitFor, id)
        /\ resultCh' = Register(resultCh, EnqueueResultNames(r), id)
        /\ queue' = Append(queue, id)
    /\ loopSignal' = tickleLoop(loopSignal)
    /\ UNCHANGED <<limit, menu, sema, mu, sendIdx, loopPc, loopCtxDone, ctx,
                   ctxAtStart>>

\* EnqueueWithContext, under s.mu: as Enqueue, but with the caller's
\* context and without the registration in resultCh.
EnqueueWithContext(r) ==
    /\ r.api = "EnqueueWithContext"
    /\ ~Called(r)
    /\ Len(ev) < MaxEvents
    /\ mu = NoOne
    /\ LET id == Len(ev) + 1 IN
        /\ ev' = Append(ev, Stamp(newEvent(r)))
        /\ currentJobs' = currentJobs \cup {r.Job}
        /\ jobsWaitFor' = Register(jobsWaitFor, r.waitFor, id)
        /\ resultCh' = Register(resultCh, EnqueueWithContextResultNames(r), id)
        /\ queue' = Append(queue, id)
    /\ loopSignal' = tickleLoop(loopSignal)
    /\ UNCHANGED <<limit, menu, sema, mu, sendIdx, loopPc, loopCtxDone, ctx,
                   ctxAtStart>>

\* What a read of s.ctx by the loop goroutine may find done.  Stop writes
\* s.ctx without synchronisation, so a read that follows a Stop made after
\* Start may return the new context or the one the loop was started with.
LoopCtxReads == {ctx > 0, ctxAtStart}

\* Start: go s.loop(); the loop reaches its select.
Start ==
    /\ loopPc = "off"
    /\ loopPc' = "select"
    /\ ctxAtStart' = (ctx > 0)
    /\ loopCtxDone' = (ctx > 0)
    /\ UNCHANGED <<limit, menu, ev, queue, sema, loopSignal, mu, sendIdx,
                   currentJobs, jobsWaitFor, resultCh, ctx>>

\* A Stop that also wakes the loop.
StopAndTickle ==
    /\ ctx < menu.stops
    /\ ctx' = ctx + 1
    /\ loopSignal' = tickleLoop(loopSignal)
    /\ UNCHANGED <<limit, menu, ev, queue, sema, mu, sendIdx, currentJobs,
                   jobsWaitFor, resultCh, loopPc, loopCtxDone, ctxAtStart>>

\* Stop: s.ctx becomes a context derived from s.ctx, cancelled on return.
\* A loop already blocked in its select holds the Done() channel of the
\* context it read when it entered the select.
Stop ==
    /\ ctx < menu.stops
    /\ ctx' = ctx + 1
    /\ UNCHANGED <<limit, menu, ev, queue, sema, loopSignal, mu, sendIdx,
                   currentJobs, jobsWaitFor, resultCh, loopPc, loopCtxDone,
                   ctxAtStart>>

\* ------------------------------------------------------------------ loop
\* loop, case <-s.loopSignal.
LoopSignal ==
    /\ loopPc = "select"
    /\ loopSignal > 0
    /\ loopSignal' = loopSignal - 1
    /\ loopPc' = "tryDequeue"
    /\ UNCHANGED <<limit, menu, ev, queue, sema, mu, sendIdx, currentJobs,
                   jobsWaitFor, resultCh, loopCtxDone, ctx, ctxAtStart>>

\* loop, case <-s.ctx.Done().
LoopCtxDone ==
    /\ loopPc = "select"
    /\ loopCtxDone
    /\ loopPc' = "exit"
    /\ UNCHANGED <<limit, menu, ev, queue, sema, loopSignal, mu, sendIdx,
                   currentJobs, jobsWaitFor, resultCh, loopCtxDone, ctx,
                   ctxAtStart>>

\* A process that starts its wait loop with cnt at zero.
StartProcessNoCount(e) ==
    [e EXCEPT !.pc = "wait",
              !.cnt = 0,
              !.SucceededEvents = Cardinality(e.ifSuccess),
              !.FailedEvents = Cardinality(e.ifFailure),
              !.TotalEvents = Cardinality(e.ifSuccess) + Cardinality(e.ifFailure)]

\* process up to its wait loop: cnt and eventRes.
StartProcess(e) ==
    [e EXCEPT !.pc = "wait",
              !.cnt = Cardinality(e.waitFor),
              !.SucceededEvents = Cardinality(e.ifSuccess),
              !.FailedEvents = Cardinality(e.ifFailure),
              !.TotalEvents = Cardinality(e.ifSuccess) + Cardinality(e.ifFailure)]

\* A dequeue that takes the back of the queue.
dequeueBack(q) == q[Len(q)]

\* dequeue: the event at the front of the queue.
dequeue(q) == Head(q)

\* queue.Remove(element).
Remove(q, id) == SelectSeq(q, LAMBDA x : x # id)

\* A tryDequeue that drains: it dispatches from the front of the queue
\* while the queue is non-empty and options.sema has a slot.
tryDequeueDrain ==
    /\ loopPc = "tryDequeue"
    /\ mu = NoOne
    /\ LET free == limit - sema
           k == IF Len(queue) < free THEN Len(queue) ELSE free
       IN /\ sema' = sema + k
          /\ queue' = SubSeq(queue, k + 1, Len(queue))
          /\ ev' = [id \in DOMAIN ev |->
                      IF \E i \in 1..k : queue[i] = id
                      THEN StartProcess(ev[id]) ELSE ev[id]]
    /\ loopPc' = "select"
    /\ loopCtxDone' \in LoopCtxReads
    /\ UNCHANGED <<limit, menu, loopSignal, mu, sendIdx, currentJobs,
                   jobsWaitFor, resultCh, ctx, ctxAtStart>>

\* tryDequeue, under s.mu, then the loop is back at its select.
tryDequeue ==
    /\ loopPc = "tryDequeue"
    /\ mu = NoOne
    /\ IF Len(queue) = 0
       THEN UNCHANGED <<ev, queue, sema>>
       ELSE IF SemaHasSlot
            THEN /\ sema' = sema + 1
                 /\ queue' = Remove(queue, dequeue(queue))
                 /\ ev' = [ev EXCEPT ![dequeue(queue)] = StartProcess(@)]
            ELSE UNCHANGED <<ev, queue, sema>>
    /\ loopPc' = "select"
    /\ loopCtxDone' \in LoopCtxReads
    /\ UNCHANGED <<limit, menu, loopSignal, mu, sendIdx, currentJobs,
                   jobsWaitFor, resultCh, ctx, ctxAtStart>>

\* --------------------------------------------------------------- workers
\* A process that records a cancelled context as a failure.
AfterWaitCancelFails(e) ==
    IF e.SucceededEvents # 0 \/ e.FailedEvents # 0
    THEN [e EXCEPT !.result = statusFailure, !.pc = "removeJob"]
    ELSE IF e.ctxDone
         THEN [e EXCEPT !.result = statusFailure, !.pc = "removeJob"]
         ELSE [e EXCEPT !.pc = "run", !.invoked = TRUE]

\* process after its wait loop: the gate on eventRes, then the check of
\* event.ctx.Done(), then the call of event.f.
AfterWait(e) ==
    IF e.SucceededEvents # 0 \/ e.FailedEvents # 0
    THEN [e EXCEPT !.result = statusFailure, !.pc = "removeJob"]
    ELSE IF e.ctxDone
         THEN [e EXCEPT !.pc = "removeJob"]
         ELSE [e EXCEPT !.pc = "run", !.invoked = TRUE]

\* The for loop of process breaks and process goes on to the gate.
WaitDone(id) ==
    /\ ev[id].pc = "wait"
    /\ WaitOver(ev[id])
    /\ ev' = [ev EXCEPT ![id] = AfterWait(@)]
    /\ UNCHANGED <<limit, menu, queue, sema, loopSignal, mu, sendIdx,
                   currentJobs, jobsWaitFor, resultCh, loopPc, loopCtxDone,
                   ctx, ctxAtStart>>

\* event.f returns; an error sets result to statusFailure.  process
\* returns and its deferred removeJob is next.
BodyReturn(id, err) ==
    /\ ev[id].pc = "run"
    /\ ev' = [ev EXCEPT ![id].pc = "removeJob",
                        ![id].result = IF err THEN statusFailure ELSE @]
    /\ UNCHANGED <<limit, menu, queue, sema, loopSignal, mu, sendIdx,
                   currentJobs, jobsWaitFor, resultCh, loopPc, loopCtxDone,
                   ctx, ctxAtStart>>

\* removeJob: s.mu.Lock() returns.
RemoveJobLock(id) ==
    /\ ev[id].pc = "removeJob"
    /\ mu = NoOne
    /\ mu' = id
    /\ sendIdx' = 0
    /\ ev' = [ev EXCEPT ![id].pc = "fanout"]
    /\ UNCHANGED <<limit, menu, queue, sema, loopSignal, currentJobs,
                   jobsWaitFor, resultCh, loopPc, loopCtxDone, ctx, ctxAtStart>>

\* The channels removeJob of event id sends on, in order: those of
\* jobsWaitFor[event.Job], then those of resultCh[event.Job].
ChTargets(id) == jobsWaitFor[ev[id].Job]
ResultTargets(id) == resultCh[ev[id].Job]

\* The receive of event.ch in the select of process.
ReceiveCh(e) == [e EXCEPT !.cnt = @ - 1]

\* A receive that counts every result as a success.
ReceiveResultAsSuccess(e, r) ==
    [e EXCEPT !.TotalEvents = @ - 1, !.SucceededEvents = @ - 1]

\* The receive of r from event.resultCh in the select of process.
ReceiveResult(e, r) ==
    IF r = statusSuccess
    THEN [e EXCEPT !.TotalEvents = @ - 1, !.SucceededEvents = @ - 1]
    ELSE [e EXCEPT !.TotalEvents = @ - 1, !.FailedEvents = @ - 1]

\* removeJob: v <- struct{}{} for the next v of jobsWaitFor[event.Job],
\* together with the receive by the worker that owns v.
SendCh(id) ==
    /\ mu = id
    /\ ev[id].pc = "fanout"
    /\ sendIdx < Len(ChTargets(id))
    /\ LET w == ChTargets(id)[sendIdx + 1] IN
        /\ Receiving(w)
        /\ ev' = [ev EXCEPT ![w] = ReceiveCh(@)]
    /\ sendIdx' = sendIdx + 1
    /\ UNCHANGED <<limit, menu, queue, sema, loopSignal, mu, currentJobs,
                   jobsWaitFor, resultCh, loopPc, loopCtxDone, ctx, ctxAtStart>>

\* removeJob: v <- event.result for the next v of resultCh[event.Job],
\* together with the receive by the worker that owns v.
SendResultCh(id) ==
    /\ mu = id
    /\ ev[id].pc = "fanout"
    /\ sendIdx >= Len(ChTargets(id))
    /\ sendIdx < Len(ChTargets(id)) + Len(ResultTargets(id))
    /\ LET w == ResultTargets(id)[sendIdx - Len(ChTargets(id)) + 1] IN
        /\ Receiving(w)
        /\ ev' = [ev EXCEPT ![w] = ReceiveResult(@, ev[id].result)]
    /\ sendIdx' = sendIdx + 1
    /\ UNCHANGED <<limit, menu, queue, sema, loopSignal, mu, currentJobs,
                   jobsWaitFor, resultCh, loopPc, loopCtxDone, ctx, ctxAtStart>>

\* The registries after the deletes at the end of removeJob: the entry of
\* jobsWaitFor goes, the entry of resultCh stays.
DeleteJobsWaitFor(job) == [jobsWaitFor EXCEPT ![job] = <<>>]
DeleteResultCh(job) == resultCh

\* removeJob: both loops are over; the deletes and the deferred Unlock.
RemoveJobUnlock(id) ==
    /\ mu = id
    /\ ev[id].pc = "fanout"
    /\ sendIdx = Len(ChTargets(id)) + Len(ResultTargets(id))
    /\ jobsWaitFor' = DeleteJobsWaitFor(ev[id].Job)
    /\ resultCh' = DeleteResultCh(ev[id].Job)
    /\ currentJobs' = currentJobs \ {ev[id].Job}
    /\ mu' = NoOne
    /\ sendIdx' = 0
    /\ ev' = [ev EXCEPT ![id].pc = "replenish"]
    /\ UNCHANGED <<limit, menu, queue, sema, loopSignal, loopPc, loopCtxDone,
                   ctx, ctxAtStart>>

\* A replenish that does not receive from options.sema.
ReplenishKeepsSlot(id) ==
    /\ ev[id].pc = "replenish"
    /\ ev' = [ev EXCEPT ![id].pc = "tickleLoop"]
    /\ UNCHANGED <<limit, menu, queue, sema, loopSignal, mu, sendIdx,
                   currentJobs, jobsWaitFor, resultCh, loopPc, loopCtxDone,
                   ctx, ctxAtStart>>

\* replenish: <-s.options.sema.
Replenish(id) ==
    /\ ev[id].pc = "replenish"
    /\ sema > 0
    /\ sema' = sema - 1
    /\ ev' = [ev EXCEPT ![id].pc = "tickleLoop"]
    /\ UNCHANGED <<limit, menu, queue, loopSignal, mu, sendIdx, currentJobs,
                   jobsWaitFor, resultCh, loopPc, loopCtxDone, ctx, ctxAtStart>>

\* A replenish that ends without tickleLoop.
ReplenishNoTickle(id) ==
    /\ ev[id].pc = "tickleLoop"
    /\ ev' = [ev EXCEPT ![id].pc = "done"]
    /\ UNCHANGED <<limit, menu, queue, sema, loopSignal, mu, sendIdx,
                   currentJobs, jobsWaitFor, resultCh, loopPc, loopCtxDone,
                   ctx, ctxAtStart>>

\* replenish: s.tickleLoop(); the worker goroutine ends.
ReplenishTickle(id) ==
    /\ ev[id].pc = "tickleLoop"
    /\ loopSignal' = tickleLoop(loopSignal)
    /\ ev' = [ev EXCEPT ![id].pc = "done"]
    /\ UNCHANGED <<limit, menu, queue, sema, mu, sendIdx, currentJobs,
                   jobsWaitFor, resultCh, loopPc, loopCtxDone, ctx, ctxAtStart>>

\* ------------------------------------------------------------------ Next
Next ==
    \/ \E r \in menu.calls : Enqueue(r)
    \/ \E r \in menu.calls : EnqueueWithContext(r)
    \/ Start
    \/ Stop
    \/ LoopSignal
    \/ LoopCtxDone
    \/ tryDequeue
    \/ \E id \in Ids : WaitDone(id)
    \/ \E id \in Ids, err \in BOOLEAN : BodyReturn(id, err)
    \/ \E id \in Ids : RemoveJobLock(id)
    \/ \E id \in Ids : SendCh(id)
    \/ \E id \in Ids : SendResultCh(id)
    \/ \E id \in Ids : RemoveJobUnlock(id)
    \/ \E id \in Ids : Replenish(id)
    \/ \E id \in Ids : ReplenishTickle(id)

Spec == Init /\ [][Next]_vars

\* -------------------------------------------------------------- fairness
\* The goroutines of the scheduler are scheduled fairly: the loop and every
\* worker take their next step when it stays possible.  The client's calls
\* (Enqueue, EnqueueWithContext, Start, Stop) are under no fairness.
LoopStep == LoopSignal \/ LoopCtxDone \/ tryDequeue

WorkerStep(id) ==
    /\ id \in Ids
    /\ \/ WaitDone(id)
       \/ \E err \in BOOLEAN : BodyReturn(id, err)
       \/ RemoveJobLock(id)
       \/ SendCh(id)
       \/ SendResultCh(id)
       \/ RemoveJobUnlock(id)
       \/ Replenish(id)
       \/ ReplenishTickle(id)

FairSpec ==
    /\ Spec
    /\ WF_vars(LoopStep)
    /\ \A id \in 1..MaxEvents : WF_vars(WorkerStep(id))

\* ------------------------------------------------------------ properties
\* event.f of id has returned, or process returned without calling it.
BodyOver(id) ==
    ev[id].pc \in {"removeJob", "fanout", "replenish", "tickleLoop", "done"}

\* removeJob of id has returned: its fan-out is complete.
FanOutOver(id) == ev[id].pc \in {"replenish", "tickleLoop", "done"}

\* The event has no dependency of any kind.
Independent(id) ==
    ev[id].waitFor = {} /\ ev[id].ifSuccess = {} /\ ev[id].ifFailure = {}

\* id is the only event created so far with its Job.
OnlyOfItsName(id) == \A o \in Ids : ev[o].Job = ev[id].Job => o = id

Running == {id \in Ids : ev[id].pc = "run"}

\* C1: at most limit bodies execute at the same time; and with limit 1, of
\* two independent jobs the one submitted later does not have its body
\* started before the body of the earlier one is over.
C1_Ceiling ==
    /\ Cardinality(Running) <= limit
    /\ limit = 1 =>
        \A x \in Ids, y \in Ids :
            (x < y /\ Independent(x) /\ Independent(y) /\ ev[y].invoked)
                => BodyOver(x)

\* Witness of C1: limit 1, X's body is over and Y's body runs, both
\* independent, X submitted first.
C1_Witness ==
    /\ limit = 1
    /\ \E x \in Ids, y \in Ids :
        /\ x < y /\ Independent(x) /\ Independent(y)
        /\ ev[x].invoked /\ BodyOver(x)
        /\ ev[y].pc = "run"

\* The holder of s.mu stands at a send that nobody receives.  The receiver
\* is then queued (it gets a worker only through tryDequeue, which needs
\* s.mu), or its wait loop is over: the send never completes.
HolderBlocked ==
    /\ mu # NoOne
    /\ \/ /\ sendIdx < Len(ChTargets(mu))
          /\ ~Receiving(ChTargets(mu)[sendIdx + 1])
       \/ /\ sendIdx >= Len(ChTargets(mu))
          /\ sendIdx < Len(ChTargets(mu)) + Len(ResultTargets(mu))
          /\ ~Receiving(ResultTargets(mu)[sendIdx - Len(ChTargets(mu)) + 1])

\* C2: s.mu is never held by a goroutine that is blocked for good.
C2_NoDeadlock == ~HolderBlocked

\* C3: the body of a job does not start before, for each name of its
\* waitFor, the body of a job of that name is over.
C3_WaitFor ==
    \A j \in Ids :
        ev[j].invoked =>
            \A n \in ev[j].waitFor : \E a \in Ids : ev[a].Job = n /\ BodyOver(a)

\* Witness of C3: the body of a job with two names in waitFor runs.
C3_Witness ==
    \E j \in Ids : Cardinality(ev[j].waitFor) = 2 /\ ev[j].pc = "run"

LoopOn == loopPc # "off" /\ menu.stops = 0

\* J is dispatched and stands in its wait loop while the body of A, a job
\* named in J's ifFailure, still runs: J was registered before A's
\* removeJob, and a send to J finds J receiving.
WaitsOnFailureOf(j, a) ==
    /\ j \in Ids /\ a \in Ids
    /\ ev[a].Job \in ev[j].ifFailure
    /\ ev[j].pc = "wait"
    /\ ev[a].pc = "run"

\* C5: J has A in ifFailure and A ends with statusSuccess: J finalizes with
\* statusFailure, its body never invoked.  Stated for the J that waits
\* while A runs: in the end A has failed, or J's removeJob has returned
\* with J's result statusFailure and J's body not invoked.
C5_IfFailureGate ==
    \A j \in 1..MaxEvents, a \in 1..MaxEvents :
        [](WaitsOnFailureOf(j, a) =>
            <>(/\ j \in Ids /\ a \in Ids
               /\ \/ ev[a].result = statusFailure
                  \/ /\ FanOutOver(j)
                     /\ ev[j].result = statusFailure
                     /\ ~ev[j].invoked))

\* C6: A's body returns an error and J has A in ifFailure: J's body is
\* invoked and J finalizes.  Stated for the J that waits while A runs: in
\* the end A's body is over with statusSuccess, or J's body was invoked
\* and J's worker is done.
C6_IfFailureRuns ==
    \A j \in 1..MaxEvents, a \in 1..MaxEvents :
        [](WaitsOnFailureOf(j, a) =>
            <>(/\ j \in Ids /\ a \in Ids
               /\ \/ BodyOver(a) /\ ev[a].result = statusSuccess
                  \/ ev[j].invoked /\ ev[j].pc = "done"))

\* A was submitted by Enqueue before J, J has A in ifSuccess and was
\* submitted by Enqueue too, A is the only job of its name, and A's body
\* has returned without error.
SucceededBefore(a, j) ==
    /\ j \in Ids /\ a \in Ids /\ a < j
    /\ ev[a].Job \in ev[j].ifSuccess
    /\ ev[a].api = "Enqueue" /\ ev[j].api = "Enqueue"
    /\ OnlyOfItsName(a)
    /\ ev[a].invoked /\ BodyOver(a) /\ ev[a].result = statusSuccess

\* C7: A (body succeeds) is submitted, then J with A in ifSuccess: in every
\* interleaving J's body is invoked in the end and J finalizes.
C7_IfSuccessRuns ==
    \A j \in 1..MaxEvents, a \in 1..MaxEvents :
        []((LoopOn /\ SucceededBefore(a, j)) =>
            <>(j \in Ids /\ ev[j].invoked /\ ev[j].pc = "done"))

\* Every name the event depends on is the Job of a submitted event.
DependenciesSubmitted(j) ==
    \A n \in ev[j].waitFor \cup ev[j].ifSuccess \cup ev[j].ifFailure :
        \E a \in Ids : ev[a].Job = n

\* C8: with the loop running and never stopped, every submitted job whose
\* dependencies are all submitted finalizes in the end: its worker is done.
C8_Finalizes ==
    \A j \in 1..MaxEvents :
        []((LoopOn /\ j \in Ids /\ DependenciesSubmitted(j)) =>
            <>(j \in Ids /\ ev[j].pc = "done"))

\* C9: no worker is started for a job submitted after Stop was called on
\* a scheduler whose loop had been started before.
C9_NoDispatchAfterStop ==
    [][\A id \in Ids :
        (ev[id].pc = "queued" /\ ev[id].afterStop /\ ~ctxAtStart)
            => ev'[id].pc = "queued"]_vars

\* What of the scheduler can be observed: everything but which of the
\* cancelled contexts s.ctx is.
Observable ==
    <<ctx > 0, limit, ev, queue, sema, loopSignal, mu, sendIdx, currentJobs,
      jobsWaitFor, resultCh, loopPc, loopCtxDone, ctxAtStart>>

\* C10: a Stop after a Stop changes nothing that can be observed.
C10_StopIdempotent ==
    [][(ctx > 0 /\ ctx' # ctx) => Observable' = Observable]_vars

\* Witness of C10: Stop was called twice while the loop is at its select
\* and a job is queued.
C10_Witness == ctx >= 2 /\ loopPc = "select" /\ Len(queue) > 0

\* The event has a worker: tryDequeue has dequeued it.
Dispatched(id) == ev[id].pc # "queued"

\* C11: dispatch is in submission order: a job has no worker before every
\* job submitted earlier has one.
C11_Fifo ==
    \A x \in Ids, y \in Ids : (x < y /\ Dispatched(y)) => Dispatched(x)

\* Witness of C11: three jobs were submitted, the first two have workers
\* that are both still waiting or running, the third is queued.
C11_Witness ==
    /\ Len(ev) >= 3
    /\ ev[1].pc \in {"wait", "run"} /\ ev[2].pc \in {"wait", "run"}
    /\ ev[3].pc = "queued"

ResultsReceived(w) ==
    IF Dispatched(w)
    THEN Cardinality(ev[w].ifSuccess) + Cardinality(ev[w].ifFailure)
             - ev[w].TotalEvents
    ELSE 0

\* removeJob of event id stands at a send on the resultCh of event w.
SendsResultTo(id, w) ==
    /\ mu = id
    /\ ev[id].pc = "fanout"
    /\ sendIdx >= Len(ChTargets(id))
    /\ sendIdx < Len(ChTargets(id)) + Len(ResultTargets(id))
    /\ w = ResultTargets(id)[sendIdx - Len(ChTargets(id)) + 1]

\* C13: a finalizing job never attempts to deliver a result to a waiter
\* that has already received a result for each of its registrations, also
\* when two jobs are submitted under the same name.
C13_NoRedelivery ==
    \A id \in Ids, w \in Ids :
        SendsResultTo(id, w) =>
            ResultsReceived(w) < Cardinality(EnqueueResultNames(ev[w]))

\* No job of a name that event b waits for has been submitted.
LacksDependency(b) ==
    \E n \in ev[b].waitFor : \A a \in Ids : ev[a].Job # n

\* C14: a job that waits for a name under which no job has been submitted
\* is not finalized and its body is not invoked: it is queued or stands in
\* its wait loop with its count of signals still positive.
C14_MissingDependency ==
    \A b \in Ids :
        LacksDependency(b) =>
            /\ ev[b].pc \in {"queued", "wait"}
            /\ ~ev[b].invoked
            /\ Dispatched(b) => ev[b].cnt >= 1

\* Witness of C14: a job stands in its wait loop for a name nobody
\* submitted, while every other submitted job is done and the queue is
\* empty.
C14_Witness ==
    \E b \in Ids :
        /\ LacksDependency(b)
        /\ ev[b].pc = "wait"
        /\ queue = <<>>
        /\ Len(ev) >= 2
        /\ \A a \in Ids \ {b} : ev[a].pc = "done"

\* The channel of event id is in the list reg.
Registered(reg, id) == \E i \in 1..Len(reg) : reg[i] = id

\* C15: the step in which Enqueue or EnqueueWithContext creates a job
\* leaves the job registered in jobsWaitFor under every name of its
\* waitFor, registered in resultCh under every name of its ifSuccess and
\* of its ifFailure, and at the back of the queue.
C15_SubmitRegisters ==
    [][Len(ev') = Len(ev) + 1 =>
          /\ \A n \in ev'[Len(ev')].waitFor :
                 Registered(jobsWaitFor'[n], Len(ev'))
          /\ \A n \in ev'[Len(ev')].ifSuccess \cup ev'[Len(ev')].ifFailure :
                 Registered(resultCh'[n], Len(ev'))
          /\ queue' # <<>>
          /\ queue'[Len(queue')] = Len(ev')]_vars

\* C16: the step in which removeJob of a job named n returns leaves no
\* entry for n: jobsWaitFor[n] and resultCh[n] are empty and n is not in
\* currentJobs.
C16_EntriesRemoved ==
    [][\A id \in Ids :
          (ev[id].pc = "fanout" /\ ev'[id].pc = "replenish") =>
              /\ jobsWaitFor'[ev[id].Job] = <<>>
              /\ resultCh'[ev[id].Job] = <<>>
              /\ ev[id].Job \notin currentJobs']_vars

\* No job of the client program has a dependency of any kind.
DependencyFree ==
    \A r \in menu.calls :
        r.waitFor = {} /\ r.ifSuccess = {} /\ r.ifFailure = {}

\* C18: no wake is lost for dependency-free jobs: with the loop running
\* and never stopped, every submitted job of a client program without
\* dependencies gets a worker in the end, however the Enqueue calls, the
\* wakes and the completions interleave.
C18_NoLostWake ==
    \A j \in 1..MaxEvents :
        []((LoopOn /\ DependencyFree /\ j \in Ids) =>
            <>(j \in Ids /\ Dispatched(j)))

\* Witness of C18: a burst larger than cap(loopSignal) and than the
\* ceiling: three jobs were submitted at limit 1, the first is done, the
\* second has its worker, the third is queued, and no wake is pending
\* while the loop stands in its select.
C18_Witness ==
    /\ DependencyFree /\ LoopOn
    /\ limit = 1 /\ Len(ev) = 3
    /\ ev[1].pc = "done" /\ Dispatched(2) /\ ev[3].pc = "queued"
    /\ loopSignal = 0 /\ loopPc = "select"

\* The step of the loop from tryDequeue back to its select.
WakeHandled == loopPc = "tryDequeue" /\ loopPc' = "select"

Tickles ==
    \/ Len(ev') = Len(ev) + 1
    \/ \E id \in Ids : ev[id].pc = "tickleLoop" /\ ev'[id].pc = "done"

SlotHolders ==
    {id \in Ids :
        ev[id].pc \in {"wait", "run", "removeJob", "fanout", "replenish"}}

\* C20: a worker holds its slot from its dispatch until its replenish,
\* through its wait loop, its body and its removeJob: the number of such
\* workers is len(options.sema) and is at most the limit.
C20_SlotHeld ==
    /\ Cardinality(SlotHolders) = sema
    /\ sema <= limit

\* Witness of C20: every slot is held, one of them by a worker that
\* stands in its wait loop for a dependency, while a job is queued.
C20_Witness ==
    /\ sema = limit /\ queue # <<>>
    /\ \E id \in SlotHolders : Receiving(id)

====
